---- MODULE Spec2Model ----
(***************************************************************************)
(* Consistent-hashing ring with bounded-load host selection.               *)
(* Model of package core (Consistent) and of the proxy's request path.     *)
(***************************************************************************)
EXTENDS Integers, Sequences, FiniteSets, TLC

\* ------------------------------------------------------------------ bounds
Hosts == {"A", "B", "C"}
NoHost == ""
replicaNum == 2
MaxKey == 2
MaxNegLoad == 1
MaxLoadVal == 1
MaxTotal == 2
MaxCycles == 6
\* the number of {GetKeyLeast; Inc} cycles of TestConsistent_GetKeyLeast
LongRun == 100
Callers == {"c1", "c2"}

\* hashFunc(key) of the keys that are looked up
KeyHashes == {4 * k : k \in 0..MaxKey}
MinLoadVal == -MaxNegLoad
LoadVals == {MinLoadVal, MaxLoadVal}
HashFuncs == {"inj", "col"}

HostIdx(h) == CASE h = "A" -> 0 [] h = "B" -> 1 [] OTHER -> 2

\* ----------------------------------------------------------- pure helpers
\* hashFunc(fmt.Sprintf("%s%d", hostName, i)) for an injected hash function:
\* "inj" gives every virtual node its own value, "col" makes virtual nodes
\* of different hosts collide.
HashOf(f, h, i) ==
    IF f = "inj" THEN 1 + HostIdx(h) + 3 * i
    ELSE 1 + 3 * HostIdx(h) + 3 * i

\* Go integer division truncates toward zero
TruncDiv(a, b) == IF a >= 0 THEN a \div b ELSE -((-a) \div b)

\* math.Ceil(avg * (1 + loadBoundFactor)) with loadBoundFactor = 0.25
ScaleCeil(avg) == -((-(5 * avg)) \div 4)

\* map lookup with Go's zero value for a missing key
MapGet(m, v) == IF v \in DOMAIN m THEN m[v] ELSE NoHost

MapDel(m, v) == [x \in (DOMAIN m) \ {v} |-> m[x]]

MapPut(m, k, v) == [x \in (DOMAIN m) \cup {k} |-> IF x = k THEN v ELSE m[x]]

\* the ring left in append order
SortRingNone(s) == s

\* sort.Slice(..., less) on the hash ring
SortRing(s) == SortSeq(s, LAMBDA a, b: a < b)

\* sort.Search(n, func(i) bool { return ring[i] >= key }), 0-based indices
RECURSIVE SortSearch(_, _, _, _)
SortSearch(ring, key, i, j) ==
    IF i < j
    THEN LET h == (i + j) \div 2
         IN IF ~(ring[h + 1] >= key)
            THEN SortSearch(ring, key, h + 1, j)
            ELSE SortSearch(ring, key, i, h)
    ELSE i

searchKey(ring, key) ==
    LET idx == SortSearch(ring, key, 0, Len(ring))
    IN IF idx >= Len(ring) THEN 0 ELSE idx

\* the binary search of delHashIndex: the index found, or -1
RECURSIVE DelSearch(_, _, _, _)
DelSearch(ring, val, l, r) ==
    IF l <= r
    THEN LET m == (l + r) \div 2
         IN IF ring[m + 1] = val THEN m
            ELSE IF ring[m + 1] < val THEN DelSearch(ring, val, m + 1, r)
            ELSE DelSearch(ring, val, l, m - 1)
    ELSE -1

\* delHashIndex with the search stopping one short of the last ring entry
delHashIndexShort(ring, val) ==
    LET idx == DelSearch(ring, val, 0, Len(ring) - 2)
    IN IF idx /= -1
       THEN SubSeq(ring, 1, idx) \o SubSeq(ring, idx + 2, Len(ring))
       ELSE ring

delHashIndex(ring, val) ==
    LET idx == DelSearch(ring, val, 0, Len(ring) - 1)
    IN IF idx /= -1
       THEN SubSeq(ring, 1, idx) \o SubSeq(ring, idx + 2, Len(ring))
       ELSE ring

\* the registration loop: insert each virtual node in the mapping and append
\* its hash to the ring
RECURSIVE RegLoop(_, _, _, _)
RegLoop(f, h, i, st) ==
    IF i < replicaNum
    THEN LET hashedIdx == HashOf(f, h, i)
         IN RegLoop(f, h, i + 1,
                    [m |-> MapPut(st.m, hashedIdx, h),
                     s |-> Append(st.s, hashedIdx)])
    ELSE st

\* the unregistration loop: delete each virtual node from the mapping and
\* splice one occurrence of its hash out of the ring
RECURSIVE UnregLoop(_, _, _, _)
UnregLoop(f, h, i, st) ==
    IF i < replicaNum
    THEN LET hashedIdx == HashOf(f, h, i)
         IN UnregLoop(f, h, i + 1,
                      [m |-> MapDel(st.m, hashedIdx),
                       s |-> delHashIndex(st.s, hashedIdx)])
    ELSE st

RECURSIVE SumLoads(_, _)
SumLoads(hm, S) ==
    IF S = {} THEN 0
    ELSE LET h == CHOOSE x \in S : TRUE
         IN hm[h] + SumLoads(hm, S \ {h})

LoadSum(hm) == SumLoads(hm, DOMAIN hm)

\* ------------------------------------------------------------------ state
VARIABLES hashFunc, hostMap, replicaHostMap, sortedHostsHashSet, totalLoad,
          spinning, lastOp, picked, inflight, cycles, snap, writer, reader

coreVars == <<hashFunc, hostMap, replicaHostMap, sortedHostsHashSet, totalLoad>>
proxyVars == <<picked, inflight, cycles, snap, writer, reader>>
vars == <<hashFunc, hostMap, replicaHostMap, sortedHostsHashSet, totalLoad,
          spinning, lastOp, picked, inflight, cycles, snap, writer, reader>>

\* no Inc is being followed
NoSnap == [st |-> "none", host |-> NoHost, hm |-> << >>, total |-> 0]
\* no RegisterHost or UnregisterHost call is inside its critical section
Idle == [op |-> "idle", host |-> NoHost, i |-> 0, pc |-> "idle"]
\* no GetKey call is between its search and its ring access
NoRead == [pc |-> "idle", key |-> -1, idx |-> 0]

Op(op, host, key, err, out, n) ==
    [op |-> op, host |-> host, key |-> key, err |-> err, out |-> out, n |-> n]

\* NewConsistent(replicaNum, hashFunc)
Init ==
    /\ hashFunc \in HashFuncs
    /\ hostMap = << >>
    /\ replicaHostMap = << >>
    /\ sortedHostsHashSet = << >>
    /\ totalLoad = 0
    /\ spinning = FALSE
    /\ lastOp = Op("New", NoHost, -1, "nil", NoHost, 0)
    /\ picked = [c \in Callers |-> NoHost]
    /\ inflight = [h \in Hosts |-> 0]
    /\ cycles = 0
    /\ snap = NoSnap
    /\ writer = Idle
    /\ reader = NoRead

HostCount == Cardinality(DOMAIN hostMap)

\* Capacity with the ceiling taken one too high
CapacityLoose(T, n) ==
    LET avg == TruncDiv(T + 1, n)
    IN ScaleCeil(IF avg = 0 THEN 1 ELSE avg) + 1

\* the capacity a candidate is tested against, totalLoad already clamped
Capacity(T, n) ==
    LET avg == TruncDiv(T + 1, n)
    IN ScaleCeil(IF avg = 0 THEN 1 ELSE avg)

\* checkLoadCapacity testing the current load instead of the projected load
checkLoadCapacityCurrent(hm, T, host) ==
    IF host \notin DOMAIN hm
    THEN [ok |-> FALSE, err |-> "HostNotFound"]
    ELSE [ok |-> hm[host] <= Capacity(T, Cardinality(DOMAIN hm)),
          err |-> "nil"]

\* checkLoadCapacity(host) after its totalLoad clamp
checkLoadCapacity(hm, T, host) ==
    IF host \notin DOMAIN hm
    THEN [ok |-> FALSE, err |-> "HostNotFound"]
    ELSE [ok |-> hm[host] + 1 <= Capacity(T, Cardinality(DOMAIN hm)),
          err |-> "nil"]

\* the value MaxLoad() returns for a registry hm and aggregate load T
MaxLoadValue(hm, T) ==
    LET T1 == IF T = 0 THEN 1 ELSE T
        avg == TruncDiv(T1, Cardinality(DOMAIN hm))
    IN ScaleCeil(IF avg = 0 THEN 1 ELSE avg)

\* the scan loop of GetKeyLeast from ring position i (0-based); visited are
\* the positions already tested: coming back to one of them with the same
\* state means the loop never ends
RECURSIVE Scan(_, _, _, _, _, _)
Scan(hm, rm, ring, T, i, visited) ==
    LET host == MapGet(rm, ring[i + 1])
        chk == checkLoadCapacity(hm, T, host)
        nxt == IF i + 1 >= Cardinality(DOMAIN rm) THEN 0 ELSE i + 1
        n == Cardinality(visited) + 1
    IN IF chk.err /= "nil" THEN [out |-> NoHost, err |-> chk.err, n |-> n]
       ELSE IF chk.ok THEN [out |-> host, err |-> "nil", n |-> n]
       ELSE IF nxt \in visited \cup {i}
            THEN [out |-> NoHost, err |-> "diverge", n |-> n]
       ELSE Scan(hm, rm, ring, T, nxt, visited \cup {i})

\* ---------------------------------------------------------- core operations
\* RegisterHost without the duplicate check
RegisterHostCoreNoCheck(h) ==
    /\ ~spinning
    /\ LET st == RegLoop(hashFunc, h, 0,
                         [m |-> replicaHostMap, s |-> sortedHostsHashSet])
       IN /\ hostMap' = MapPut(hostMap, h, 0)
          /\ replicaHostMap' = st.m
          /\ sortedHostsHashSet' = SortRing(st.s)
          /\ lastOp' = Op("RegisterHost", h, -1, "nil", NoHost, 0)
          /\ UNCHANGED <<hashFunc, totalLoad>>
    /\ UNCHANGED spinning

RegisterHostCore(h) ==
    /\ ~spinning
    /\ IF h \in DOMAIN hostMap
       THEN /\ lastOp' = Op("RegisterHost", h, -1, "HostAlreadyExists", NoHost, 0)
            /\ UNCHANGED coreVars
       ELSE LET st == RegLoop(hashFunc, h, 0,
                              [m |-> replicaHostMap, s |-> sortedHostsHashSet])
            IN /\ hostMap' = MapPut(hostMap, h, 0)
               /\ replicaHostMap' = st.m
               /\ sortedHostsHashSet' = SortRing(st.s)
               /\ lastOp' = Op("RegisterHost", h, -1, "nil", NoHost, 0)
               /\ UNCHANGED <<hashFunc, totalLoad>>
    /\ UNCHANGED spinning

\* UnregisterHost without the presence check
UnregisterHostCoreNoCheck(h) ==
    /\ ~spinning
    /\ LET st == UnregLoop(hashFunc, h, 0,
                           [m |-> replicaHostMap, s |-> sortedHostsHashSet])
       IN /\ hostMap' = MapDel(hostMap, h)
          /\ replicaHostMap' = st.m
          /\ sortedHostsHashSet' = st.s
          /\ lastOp' = Op("UnregisterHost", h, -1, "nil", NoHost, 0)
          /\ UNCHANGED <<hashFunc, totalLoad>>
    /\ UNCHANGED spinning

UnregisterHostCore(h) ==
    /\ ~spinning
    /\ IF h \notin DOMAIN hostMap
       THEN /\ lastOp' = Op("UnregisterHost", h, -1, "HostNotFound", NoHost, 0)
            /\ UNCHANGED coreVars
       ELSE LET st == UnregLoop(hashFunc, h, 0,
                                [m |-> replicaHostMap, s |-> sortedHostsHashSet])
            IN /\ hostMap' = MapDel(hostMap, h)
               /\ replicaHostMap' = st.m
               /\ sortedHostsHashSet' = st.s
               /\ lastOp' = Op("UnregisterHost", h, -1, "nil", NoHost, 0)
               /\ UNCHANGED <<hashFunc, totalLoad>>
    /\ UNCHANGED spinning

\* UpdateLoad adding the new load without taking the previous load out
UpdateLoadCoreAdd(h, load) ==
    /\ ~spinning
    /\ IF h \notin DOMAIN hostMap
       THEN UNCHANGED coreVars
       ELSE /\ totalLoad' = totalLoad + load
            /\ hostMap' = [hostMap EXCEPT ![h] = load]
            /\ UNCHANGED <<hashFunc, replicaHostMap, sortedHostsHashSet>>
    /\ lastOp' = Op("UpdateLoad", h, -1, "nil", NoHost, load)
    /\ UNCHANGED spinning

UpdateLoadCore(h, load) ==
    /\ ~spinning
    /\ IF h \notin DOMAIN hostMap
       THEN UNCHANGED coreVars
       ELSE /\ totalLoad' = totalLoad - hostMap[h] + load
            /\ hostMap' = [hostMap EXCEPT ![h] = load]
            /\ UNCHANGED <<hashFunc, replicaHostMap, sortedHostsHashSet>>
    /\ lastOp' = Op("UpdateLoad", h, -1, "nil", NoHost, load)
    /\ UNCHANGED spinning

\* Inc raising the host's load and leaving the aggregate alone
IncCoreNoTotal(h) ==
    /\ ~spinning
    /\ IF h \notin DOMAIN hostMap
       THEN /\ lastOp' = Op("Inc", h, -1, "panic", NoHost, 0)
            /\ UNCHANGED coreVars
       ELSE /\ hostMap' = [hostMap EXCEPT ![h] = @ + 1]
            /\ lastOp' = Op("Inc", h, -1, "nil", NoHost, 0)
            /\ UNCHANGED <<hashFunc, replicaHostMap, sortedHostsHashSet, totalLoad>>
    /\ UNCHANGED spinning

\* c.hostMap[hostName] is nil for an unknown name: the dereference panics and
\* the deferred Unlock releases the lock
IncCore(h) ==
    /\ ~spinning
    /\ IF h \notin DOMAIN hostMap
       THEN /\ lastOp' = Op("Inc", h, -1, "panic", NoHost, 0)
            /\ UNCHANGED coreVars
       ELSE /\ hostMap' = [hostMap EXCEPT ![h] = @ + 1]
            /\ totalLoad' = totalLoad + 1
            /\ lastOp' = Op("Inc", h, -1, "nil", NoHost, 0)
            /\ UNCHANGED <<hashFunc, replicaHostMap, sortedHostsHashSet>>
    /\ UNCHANGED spinning

\* Done lowering the aggregate before looking the host up
DoneCoreNoCheck(h) ==
    /\ ~spinning
    /\ hostMap' = IF h \in DOMAIN hostMap
                  THEN [hostMap EXCEPT ![h] = @ - 1]
                  ELSE hostMap
    /\ totalLoad' = totalLoad - 1
    /\ lastOp' = Op("Done", h, -1, "nil", NoHost, 0)
    /\ UNCHANGED <<hashFunc, replicaHostMap, sortedHostsHashSet, spinning>>

DoneCore(h) ==
    /\ ~spinning
    /\ IF h \notin DOMAIN hostMap
       THEN UNCHANGED coreVars
       ELSE /\ hostMap' = [hostMap EXCEPT ![h] = @ - 1]
            /\ totalLoad' = totalLoad - 1
            /\ UNCHANGED <<hashFunc, replicaHostMap, sortedHostsHashSet>>
    /\ lastOp' = Op("Done", h, -1, "nil", NoHost, 0)
    /\ UNCHANGED spinning

\* GetKey takes no lock; indexing the empty ring panics
GetKeyCore(key) ==
    /\ IF Len(sortedHostsHashSet) = 0
       THEN lastOp' = Op("GetKey", NoHost, key, "panic", NoHost, 0)
       ELSE LET idx == searchKey(sortedHostsHashSet, key)
            IN lastOp' = Op("GetKey", NoHost, key, "nil",
                            MapGet(replicaHostMap, sortedHostsHashSet[idx + 1]), idx)
    /\ UNCHANGED <<coreVars, spinning>>

\* GetKeyLeast holds the read lock; a scan that never ends keeps it forever
GetKeyLeastCore(key) ==
    IF Cardinality(DOMAIN replicaHostMap) = 0
    THEN /\ lastOp' = Op("GetKeyLeast", NoHost, key, "HostNotFound", NoHost, 0)
         /\ UNCHANGED <<coreVars, spinning>>
    ELSE LET T == IF totalLoad < 0 THEN 0 ELSE totalLoad
             idx == searchKey(sortedHostsHashSet, key)
             r == Scan(hostMap, replicaHostMap, sortedHostsHashSet, T, idx, {})
         IN /\ totalLoad' = T
            /\ lastOp' = Op("GetKeyLeast", NoHost, key, r.err, r.out, r.n)
            /\ spinning' = (spinning \/ r.err = "diverge")
            /\ UNCHANGED <<hashFunc, hostMap, replicaHostMap, sortedHostsHashSet>>

\* MaxLoad takes no lock and writes totalLoad; with no host the integer
\* division panics
MaxLoadCore ==
    /\ totalLoad' = IF totalLoad = 0 THEN 1 ELSE totalLoad
    /\ IF HostCount = 0
       THEN lastOp' = Op("MaxLoad", NoHost, -1, "panic", NoHost, 0)
       ELSE lastOp' = Op("MaxLoad", NoHost, -1, "nil", NoHost,
                         MaxLoadValue(hostMap, totalLoad))
    /\ UNCHANGED <<hashFunc, hostMap, replicaHostMap, sortedHostsHashSet, spinning>>

\* ------------------------------------------------ the public API, any order
RegisterHost(h) == RegisterHostCore(h) /\ UNCHANGED proxyVars

UnregisterHost(h) == UnregisterHostCore(h) /\ UNCHANGED proxyVars

UpdateLoad(h, load) ==
    /\ (h \in DOMAIN hostMap) => (totalLoad - hostMap[h] + load) \in -MaxTotal..MaxTotal
    /\ UpdateLoadCore(h, load)
    /\ UNCHANGED proxyVars

Inc(h) ==
    /\ (h \in DOMAIN hostMap) => (hostMap[h] < MaxLoadVal /\ totalLoad < MaxTotal)
    /\ IncCore(h)
    /\ UNCHANGED proxyVars

Done(h) ==
    /\ (h \in DOMAIN hostMap) => (hostMap[h] > MinLoadVal /\ totalLoad > -MaxTotal)
    /\ DoneCore(h)
    /\ UNCHANGED proxyVars

GetKey(key) == GetKeyCore(key) /\ UNCHANGED proxyVars

GetKeyLeast(key) == GetKeyLeastCore(key) /\ UNCHANGED proxyVars

MaxLoad == MaxLoadCore /\ UNCHANGED proxyVars

Next ==
    \/ \E h \in Hosts : RegisterHost(h)
    \/ \E h \in Hosts : UnregisterHost(h)
    \/ \E h \in Hosts, load \in LoadVals : UpdateLoad(h, load)
    \/ \E h \in Hosts : Inc(h)
    \/ \E h \in Hosts : Done(h)
    \/ \E key \in KeyHashes : GetKey(key)
    \/ \E key \in KeyHashes : GetKeyLeast(key)
    \/ MaxLoad

Spec == Init /\ [][Next]_vars

\* ------------------------------------------- the proxy's bounded request path
\* hosts join before the first request
SetupRegister(h) ==
    /\ cycles = 0
    /\ \A c \in Callers : picked[c] = NoHost
    /\ RegisterHostCore(h)
    /\ UNCHANGED proxyVars

\* two registered hosts run the long scenario of the test, other host counts
\* run MaxCycles requests
CycleCap == IF HostCount = 2 THEN LongRun ELSE MaxCycles

\* the position of a caller whose GetKeyLeast call never returns
InScan == "<scan>"

\* Proxy.GetKeyLeast, first half: host, err := p.consistent.GetKeyLeast(key)
ProxySelect(c, key) ==
    /\ picked[c] = NoHost
    /\ GetKeyLeastCore(key)
    /\ picked' = [picked EXCEPT ![c] = IF lastOp'.err = "nil" THEN lastOp'.out
                                      ELSE IF lastOp'.err = "diverge" THEN InScan
                                      ELSE NoHost]
    /\ UNCHANGED <<inflight, cycles, snap, writer, reader>>

\* Proxy.GetKeyLeast, second half: p.consistent.Inc(host)
ProxyInc(c) ==
    /\ picked[c] \notin {NoHost, InScan}
    /\ IncCore(picked[c])
    /\ picked' = [picked EXCEPT ![c] = NoHost]
    /\ inflight' = IF lastOp'.err = "nil"
                   THEN [inflight EXCEPT ![picked[c]] = @ + 1]
                   ELSE inflight
    /\ cycles' = cycles + 1
    /\ UNCHANGED <<snap, writer, reader>>

\* the timer of Proxy.GetKeyLeast: p.consistent.Done(host), once per Inc
ProxyDone(h) ==
    /\ inflight[h] > 0
    /\ \A c \in Callers : picked[c] = NoHost
    /\ DoneCore(h)
    /\ inflight' = [inflight EXCEPT ![h] = @ - 1]
    /\ UNCHANGED <<picked, cycles, snap, writer, reader>>

NextCycles ==
    \/ \E h \in Hosts : SetupRegister(h)
    \/ \E key \in KeyHashes : cycles < CycleCap /\ ProxySelect("c1", key)
    \/ ProxyInc("c1")

SpecCycles == Init /\ [][NextCycles]_vars

NextBounded ==
    \/ \E h \in Hosts : SetupRegister(h)
    \/ \E key \in KeyHashes : cycles < MaxCycles /\ ProxySelect("c1", key)
    \/ ProxyInc("c1")
    \/ \E h \in Hosts : ProxyDone(h)

SpecBounded == Init /\ [][NextBounded]_vars

\* ------------------------------------------------ load accounting, followed
\* snap follows an Inc on a registered host: it holds the loads and the
\* aggregate read before the Inc, stays open until the next call, and is
\* closed by a Done on the same host coming right after
LoadRegister(h) ==
    /\ RegisterHostCore(h)
    /\ snap' = NoSnap
    /\ UNCHANGED <<picked, inflight, cycles, writer, reader>>

LoadUnregister(h) ==
    /\ UnregisterHostCore(h)
    /\ snap' = NoSnap
    /\ UNCHANGED <<picked, inflight, cycles, writer, reader>>

LoadUpdate(h, load) ==
    /\ (h \in DOMAIN hostMap) => (totalLoad - hostMap[h] + load) \in -MaxTotal..MaxTotal
    /\ UpdateLoadCore(h, load)
    /\ snap' = NoSnap
    /\ UNCHANGED <<picked, inflight, cycles, writer, reader>>

LoadInc(h) ==
    /\ (h \in DOMAIN hostMap) => (hostMap[h] < MaxLoadVal /\ totalLoad < MaxTotal)
    /\ IncCore(h)
    /\ snap' = IF h \in DOMAIN hostMap
               THEN [st |-> "open", host |-> h, hm |-> hostMap, total |-> totalLoad]
               ELSE NoSnap
    /\ UNCHANGED <<picked, inflight, cycles, writer, reader>>

LoadDone(h) ==
    /\ (h \in DOMAIN hostMap) => (hostMap[h] > MinLoadVal /\ totalLoad > -MaxTotal)
    /\ DoneCore(h)
    /\ snap' = IF snap.st = "open" /\ snap.host = h
               THEN [snap EXCEPT !.st = "closed"]
               ELSE NoSnap
    /\ UNCHANGED <<picked, inflight, cycles, writer, reader>>

NextLoad ==
    \/ \E h \in Hosts : LoadRegister(h)
    \/ \E h \in Hosts : LoadUnregister(h)
    \/ \E h \in Hosts, load \in LoadVals : LoadUpdate(h, load)
    \/ \E h \in Hosts : LoadInc(h)
    \/ \E h \in Hosts : LoadDone(h)

SpecLoad == Init /\ [][NextLoad]_vars

\* ----------------------------------- GetKey against a running ring mutation
\* RegisterHost and UnregisterHost run statement by statement under the write
\* lock; GetKey takes no lock, so its two reads land between any two of them
InitRace == Init /\ hashFunc = "inj"

\* c.Lock(), the lookup in hostMap and the insert or delete that follows it
RaceBegin(op, h) ==
    /\ writer = Idle
    /\ IF op = "RegisterHost"
       THEN IF h \in DOMAIN hostMap
            THEN /\ lastOp' = Op(op, h, -1, "HostAlreadyExists", NoHost, 0)
                 /\ UNCHANGED <<hostMap, writer>>
            ELSE /\ hostMap' = MapPut(hostMap, h, 0)
                 /\ writer' = [op |-> op, host |-> h, i |-> 0, pc |-> "map"]
                 /\ lastOp' = Op(op, h, -1, "running", NoHost, 0)
       ELSE IF h \notin DOMAIN hostMap
            THEN /\ lastOp' = Op(op, h, -1, "HostNotFound", NoHost, 0)
                 /\ UNCHANGED <<hostMap, writer>>
            ELSE /\ hostMap' = MapDel(hostMap, h)
                 /\ writer' = [op |-> op, host |-> h, i |-> 0, pc |-> "map"]
                 /\ lastOp' = Op(op, h, -1, "running", NoHost, 0)
    /\ UNCHANGED <<hashFunc, replicaHostMap, sortedHostsHashSet, totalLoad,
                   spinning, picked, inflight, cycles, snap, reader>>

\* c.replicaHostMap[hashedIdx] = hostName, or delete(c.replicaHostMap, hashedIdx)
RaceMapStep ==
    /\ writer.pc = "map"
    /\ LET hashedIdx == HashOf(hashFunc, writer.host, writer.i)
       IN replicaHostMap' = IF writer.op = "RegisterHost"
                            THEN MapPut(replicaHostMap, hashedIdx, writer.host)
                            ELSE MapDel(replicaHostMap, hashedIdx)
    /\ writer' = [writer EXCEPT !.pc = "ring"]
    /\ UNCHANGED <<hashFunc, hostMap, sortedHostsHashSet, totalLoad, spinning,
                   lastOp, picked, inflight, cycles, snap, reader>>

\* the append to the ring, or c.delHashIndex(hashedIdx); UnregisterHost
\* returns after its last splice
RaceRingStep ==
    /\ writer.pc = "ring"
    /\ LET hashedIdx == HashOf(hashFunc, writer.host, writer.i)
       IN sortedHostsHashSet' = IF writer.op = "RegisterHost"
                                THEN Append(sortedHostsHashSet, hashedIdx)
                                ELSE delHashIndex(sortedHostsHashSet, hashedIdx)
    /\ IF writer.i + 1 < replicaNum
       THEN /\ writer' = [writer EXCEPT !.i = @ + 1, !.pc = "map"]
            /\ UNCHANGED lastOp
       ELSE IF writer.op = "RegisterHost"
            THEN /\ writer' = [writer EXCEPT !.i = @ + 1, !.pc = "sort"]
                 /\ UNCHANGED lastOp
            ELSE /\ writer' = Idle
                 /\ lastOp' = Op(writer.op, writer.host, -1, "nil", NoHost, 0)
    /\ UNCHANGED <<hashFunc, hostMap, replicaHostMap, totalLoad, spinning,
                   picked, inflight, cycles, snap, reader>>

\* sort.Slice on the ring and the return of RegisterHost
RaceSort ==
    /\ writer.pc = "sort"
    /\ sortedHostsHashSet' = SortRing(sortedHostsHashSet)
    /\ writer' = Idle
    /\ lastOp' = Op(writer.op, writer.host, -1, "nil", NoHost, 0)
    /\ UNCHANGED <<hashFunc, hostMap, replicaHostMap, totalLoad, spinning,
                   picked, inflight, cycles, snap, reader>>

\* GetKey, first read: idx := c.searchKey(hashedKey)
RaceSearch(key) ==
    /\ reader = NoRead
    /\ reader' = [pc |-> "index", key |-> key,
                  idx |-> searchKey(sortedHostsHashSet, key)]
    /\ UNCHANGED <<coreVars, spinning, lastOp, picked, inflight, cycles, snap,
                   writer>>

\* GetKey, second read: c.replicaHostMap[c.sortedHostsHashSet[idx]]
RaceIndex ==
    /\ reader.pc = "index"
    /\ IF reader.idx >= Len(sortedHostsHashSet)
       THEN lastOp' = Op("GetKey", NoHost, reader.key, "panic", NoHost, reader.idx)
       ELSE lastOp' = Op("GetKey", NoHost, reader.key, "nil",
                         MapGet(replicaHostMap,
                                sortedHostsHashSet[reader.idx + 1]),
                         reader.idx)
    /\ reader' = NoRead
    /\ UNCHANGED <<coreVars, spinning, picked, inflight, cycles, snap, writer>>

NextRace ==
    \/ \E h \in Hosts : RaceBegin("RegisterHost", h)
    \/ \E h \in Hosts : RaceBegin("UnregisterHost", h)
    \/ RaceMapStep
    \/ RaceRingStep
    \/ RaceSort
    \/ \E key \in KeyHashes : RaceSearch(key)
    \/ RaceIndex

SpecRace == InitRace /\ [][NextRace]_vars


\* ------------------------------------ the request path run by two callers
\* each caller runs GetKeyLeast, then Inc, as two separate lock acquisitions;
\* the other caller's calls land in between
NextConc ==
    \/ \E h \in Hosts : SetupRegister(h)
    \/ \E c \in Callers, key \in KeyHashes :
          cycles < MaxCycles /\ ProxySelect(c, key)
    \/ \E c \in Callers : ProxyInc(c)

SpecConc == InitRace /\ [][NextConc]_vars


\* -------------------------------------------------------------- properties
Range(s) == {s[i] : i \in 1..Len(s)}

\* GetLoads(): the snapshot of every host's load
GetLoads == [h \in DOMAIN hostMap |-> hostMap[h]]

RegistryVars == <<hostMap, replicaHostMap, sortedHostsHashSet, totalLoad>>

\* C1: after every RegisterHost and UnregisterHost call the ring holds
\* (number of registered hosts) x replicaNum entries, and a successful
\* RegisterHost adds replicaNum ring entries and one registry entry.
RingLengthInvariant ==
    /\ [](Len(sortedHostsHashSet) = HostCount * replicaNum)
    /\ [][(lastOp'.op = "RegisterHost" /\ lastOp'.err = "nil")
            => /\ Len(sortedHostsHashSet') = Len(sortedHostsHashSet) + replicaNum
               /\ Cardinality(DOMAIN hostMap') = HostCount + 1]_vars

\* a host was just unregistered while another host shares one of its hashes
RingLengthWitness ==
    /\ lastOp.op = "UnregisterHost"
    /\ lastOp.err = "nil"
    /\ HostCount = 2
    /\ \E h \in DOMAIN hostMap, i, j \in 0..(replicaNum - 1) :
          HashOf(hashFunc, h, i) = HashOf(hashFunc, lastOp.host, j)

\* C2 as stated: with loads driven by Inc after GetKeyLeast and by Done, every
\* registered host's load is at most MaxLoad() in every state.
LoadWithinMaxLoadAlways ==
    \A h \in DOMAIN hostMap : hostMap[h] <= MaxLoadValue(hostMap, totalLoad)

\* no Done has released a reservation so far
NoRelease == LoadSum(hostMap) = cycles

\* C2 amended: while no Done has been applied every registered host's load is
\* at most MaxLoad(); after Done calls the bound still holds for the host that
\* was just incremented, right after its Inc.
LoadWithinMaxLoadAtInc ==
    /\ NoRelease => \A h \in DOMAIN hostMap :
                       hostMap[h] <= MaxLoadValue(hostMap, totalLoad)
    /\ (lastOp.op = "Inc" /\ lastOp.err = "nil")
          => hostMap[lastOp.host] <= MaxLoadValue(hostMap, totalLoad)

\* an Inc after earlier releases fills a host up to MaxLoad()
LoadWithinMaxLoadWitness ==
    /\ lastOp.op = "Inc"
    /\ lastOp.err = "nil"
    /\ ~NoRelease
    /\ hostMap[lastOp.host] >= 2
    /\ hostMap[lastOp.host] = MaxLoadValue(hostMap, totalLoad)

\* C3: with at least one host registered GetKeyLeast ends after visiting at
\* most hostCount x replicaNum ring positions.
GetKeyLeastTerminates ==
    (lastOp.op = "GetKeyLeast" /\ HostCount >= 1)
        => /\ lastOp.err /= "diverge"
           /\ lastOp.n <= HostCount * replicaNum

\* C4: the aggregate load equals the sum of the registered hosts' loads, and
\* it changes only together with a per-host load.
AggregateTracksSum ==
    /\ [](totalLoad = LoadSum(hostMap))
    /\ [][totalLoad' /= totalLoad => hostMap' /= hostMap]_vars

\* C5: after any number of sequential {GetKeyLeast; Inc} cycles from load 0,
\* every load GetLoads reports is at most MaxLoad(); two hosts after 100
\* cycles carry at most 63 each.
CyclesWithinMaxLoad ==
    /\ \A h \in DOMAIN GetLoads :
          GetLoads[h] <= MaxLoadValue(hostMap, totalLoad)
    /\ (HostCount = 2 /\ cycles = LongRun)
          => \A h \in DOMAIN GetLoads : GetLoads[h] <= 63

\* two hosts have served the 100 cycles of the test and one of them is full
CyclesWitness ==
    /\ HostCount = 2
    /\ cycles = LongRun
    /\ lastOp.op = "Inc"
    /\ \E h \in DOMAIN hostMap : hostMap[h] > LongRun \div 2

\* C6: the mapping's keys are the ring's values, and every ring value maps to
\* a registered host.
MappingMatchesRing ==
    /\ DOMAIN replicaHostMap = Range(sortedHostsHashSet)
    /\ \A v \in Range(sortedHostsHashSet) :
          MapGet(replicaHostMap, v) \in DOMAIN hostMap

\* C7: a successful UnregisterHost(B) leaves no mapping entry for B and keeps
\* every mapping entry and ring entry of the other hosts.
UnregisterRemovesOnlyOwn ==
    [][(lastOp'.op = "UnregisterHost" /\ lastOp'.err = "nil")
         => /\ \A v \in DOMAIN replicaHostMap' :
                  replicaHostMap'[v] /= lastOp'.host
            /\ \A v \in DOMAIN replicaHostMap :
                  replicaHostMap[v] /= lastOp'.host
                     => /\ v \in DOMAIN replicaHostMap'
                        /\ replicaHostMap'[v] = replicaHostMap[v]
                        /\ v \in Range(sortedHostsHashSet')]_vars

\* C8: RegisterHost of a registered name returns HostAlreadyExists and leaves
\* ring, mapping, registry and loads as they were.
ReRegisterRejected ==
    [][(lastOp'.op = "RegisterHost" /\ lastOp'.host \in DOMAIN hostMap)
         => /\ lastOp'.err = "HostAlreadyExists"
            /\ UNCHANGED RegistryVars]_vars

\* a loaded host was registered again
ReRegisterWitness ==
    /\ lastOp.op = "RegisterHost"
    /\ lastOp.err = "HostAlreadyExists"
    /\ hostMap[lastOp.host] /= 0
    /\ totalLoad /= 0

\* C9: UnregisterHost of a name that is not registered returns HostNotFound
\* and leaves ring, mapping, registry and loads as they were.
UnregisterAbsentRejected ==
    [][(lastOp'.op = "UnregisterHost" /\ lastOp'.host \notin DOMAIN hostMap)
         => /\ lastOp'.err = "HostNotFound"
            /\ UNCHANGED RegistryVars]_vars

\* an absent host was unregistered while its hash is still on the ring for
\* another, loaded host
UnregisterAbsentWitness ==
    /\ lastOp.op = "UnregisterHost"
    /\ lastOp.err = "HostNotFound"
    /\ totalLoad /= 0
    /\ \E i \in 0..(replicaNum - 1) :
          HashOf(hashFunc, lastOp.host, i) \in Range(sortedHostsHashSet)

\* the registered hosts one of whose virtual nodes hashes to v
Owners(v) ==
    {h \in DOMAIN hostMap :
        \E i \in 0..(replicaNum - 1) : HashOf(hashFunc, h, i) = v}

\* the smallest ring value >= key, or the smallest ring value when none is
Successor(key) ==
    LET R == Range(sortedHostsHashSet)
        S == {v \in R : v >= key}
        T == IF S = {} THEN R ELSE S
    IN CHOOSE v \in T : \A w \in T : v <= w

\* C10: with a host registered, GetKey returns a host owning the smallest
\* ring value >= hash(key), wrapping to the smallest ring value.
GetKeyReturnsSuccessorOwner ==
    (lastOp.op = "GetKey" /\ HostCount >= 1)
        => /\ lastOp.err = "nil"
           /\ lastOp.out \in Owners(Successor(lastOp.key))

\* C11: GetKeyLeast returns HostNotFound when no host is registered, and with
\* at least one host registered it returns the name of a registered host and
\* not HostNotFound.
GetKeyLeastReturnsRegistered ==
    lastOp.op = "GetKeyLeast" =>
        IF HostCount = 0
        THEN lastOp.err = "HostNotFound"
        ELSE lastOp.err = "nil" /\ lastOp.out \in DOMAIN hostMap

\* C13: Inc(name) completes normally for every host name, registered or not.
IncNeverFails ==
    lastOp.op = "Inc" => lastOp.err = "nil"

\* the ceiling of the exact quotient a / b, b > 0
CeilQuot(a, b) == -((-a) \div b)

\* C16: MaxLoad() never fails and returns ceil(5T / 4H), T the aggregate load
\* floored to 1 when zero, H the host count floored to 1 when zero, T/H the
\* exact quotient.
MaxLoadIsExactCeiling ==
    lastOp.op = "MaxLoad" =>
        LET T == IF totalLoad = 0 THEN 1 ELSE totalLoad
            H == IF HostCount = 0 THEN 1 ELSE HostCount
        IN lastOp.err = "nil" /\ lastOp.n = CeilQuot(5 * T, 4 * H)

\* C17: GetKey with no host registered (empty ring) returns HostNotFound.
GetKeyEmptyIsHostNotFound ==
    (lastOp.op = "GetKey" /\ HostCount = 0) => lastOp.err = "HostNotFound"

\* C18: with exactly one host registered, whatever happened before, GetKey
\* and GetKeyLeast both return that host for every key.
SingleHostOwnsEveryKey ==
    (lastOp.op \in {"GetKey", "GetKeyLeast"} /\ HostCount = 1) =>
        lastOp.err = "nil" /\ DOMAIN hostMap = {lastOp.out}

IsSorted(ring) ==
    \A i, j \in 1..Len(ring) : i <= j => ring[i] <= ring[j]

\* C20: after every RegisterHost and UnregisterHost call, in any sequence,
\* the ring is sorted in non-decreasing order.
RingSorted == IsSorted(sortedHostsHashSet)

\* a registration whose hashes sort in front of hashes already on the ring,
\* with a hash shared by two hosts on the ring
RingSortedWitness ==
    /\ lastOp.op = "RegisterHost"
    /\ lastOp.err = "nil"
    /\ HostCount >= 2
    /\ MapGet(replicaHostMap, sortedHostsHashSet[1]) = lastOp.host
    /\ \E i \in 1..(Len(sortedHostsHashSet) - 1) :
           sortedHostsHashSet[i] = sortedHostsHashSet[i + 1]

\* C12: for a registered host h, Inc(h) raises h's load and the aggregate load
\* by exactly 1, and Inc(h) followed by Done(h) restores both to their values
\* before the Inc, every other host's load unchanged throughout.
IncDoneRestores ==
    /\ snap.st = "open" =>
          /\ hostMap = [snap.hm EXCEPT ![snap.host] = @ + 1]
          /\ totalLoad = snap.total + 1
    /\ snap.st = "closed" =>
          /\ hostMap = snap.hm
          /\ totalLoad = snap.total

\* Inc(h) then Done(h) has run on a host with a load, next to another host
\* with a load
IncDoneWitness ==
    /\ snap.st = "closed"
    /\ lastOp.op = "Done"
    /\ hostMap[snap.host] /= 0
    /\ \E g \in DOMAIN hostMap : g /= snap.host /\ hostMap[g] /= 0

\* C14: Done(name) for an unregistered name does not fail and leaves the
\* loads, the aggregate load, the ring and the registry unchanged.
DoneAbsentIsNoOp ==
    [][(lastOp'.op = "Done" /\ lastOp'.host \notin DOMAIN hostMap)
         => (lastOp'.err = "nil" /\ UNCHANGED RegistryVars)]_vars

\* Done on an unregistered name while registered hosts carry load
DoneAbsentWitness ==
    /\ lastOp.op = "Done"
    /\ lastOp.host \notin DOMAIN hostMap
    /\ HostCount >= 1
    /\ totalLoad /= 0
    /\ \E g \in DOMAIN hostMap : hostMap[g] /= 0

\* C15: UpdateLoad(h, v) on a registered host sets h's load to v and changes
\* the aggregate by v minus the previous load, other hosts unchanged; on an
\* unregistered name it changes nothing and does not fail.
UpdateLoadSetsLoad ==
    [][lastOp'.op = "UpdateLoad" =>
         /\ lastOp'.err = "nil"
         /\ IF lastOp'.host \in DOMAIN hostMap
            THEN /\ hostMap' = [hostMap EXCEPT ![lastOp'.host] = lastOp'.n]
                 /\ totalLoad' = totalLoad + (lastOp'.n - hostMap[lastOp'.host])
                 /\ UNCHANGED <<replicaHostMap, sortedHostsHashSet>>
            ELSE UNCHANGED RegistryVars]_vars

\* UpdateLoad has replaced a load next to another host with a load
UpdateLoadWitness ==
    /\ lastOp.op = "UpdateLoad"
    /\ lastOp.host \in DOMAIN hostMap
    /\ hostMap[lastOp.host] = lastOp.n
    /\ \E g \in DOMAIN hostMap : g /= lastOp.host /\ hostMap[g] /= 0
    /\ totalLoad /= lastOp.n

\* C19: a GetKey running concurrently with RegisterHost or UnregisterHost
\* returns, with no failure, a host registered before or after the mutation;
\* stated for the runs in which some host is registered in both states.
GetKeySeesBeforeOrAfter ==
    (lastOp.op = "GetKey" /\ (DOMAIN hostMap) \ {writer.host} /= {}) =>
        /\ lastOp.err = "nil"
        /\ lastOp.out \in (DOMAIN hostMap) \cup ({writer.host} \ {NoHost})

\* C21: GetKey, GetKeyLeast and MaxLoad are read-only: they leave every
\* host's load, the aggregate load, the ring, the mapping and the registry
\* unchanged, also when the aggregate load is 0 or negative.
QueriesReadOnly ==
    [][lastOp'.op \in {"GetKey", "GetKeyLeast", "MaxLoad"}
         => UNCHANGED RegistryVars]_vars

\* C22: Inc and Done keep every registered host's load at or above zero, also
\* when Done is called more often than Inc.
LoadClampedAtZero ==
    [][(/\ lastOp'.op \in {"Inc", "Done"}
        /\ \A h \in DOMAIN hostMap : hostMap[h] >= 0)
         => \A h \in DOMAIN hostMap' : hostMap'[h] >= 0]_vars

\* what GetKey returns on a given mapping and ring: a host name, the empty
\* name for an unmapped ring value, or a panic on the empty ring
GetKeyValue(rm, ring, key) ==
    IF Len(ring) = 0 THEN "panic"
    ELSE MapGet(rm, ring[searchKey(ring, key) + 1])

\* C25: after a successful RegisterHost(X) GetKey(k) is unchanged or X for
\* every key k; after a successful UnregisterHost(X) that leaves a host
\* registered GetKey(k) is unchanged for every key that did not map to X.
MinimalRelocation ==
    [][/\ (lastOp'.op = "RegisterHost" /\ lastOp'.err = "nil") =>
            \A k \in KeyHashes :
               LET before == GetKeyValue(replicaHostMap, sortedHostsHashSet, k)
                   after == GetKeyValue(replicaHostMap', sortedHostsHashSet', k)
               IN after = before \/ after = lastOp'.host
       /\ (/\ lastOp'.op = "UnregisterHost"
           /\ lastOp'.err = "nil"
           /\ DOMAIN hostMap' /= {}) =>
            \A k \in KeyHashes :
               LET before == GetKeyValue(replicaHostMap, sortedHostsHashSet, k)
                   after == GetKeyValue(replicaHostMap', sortedHostsHashSet', k)
               IN before /= lastOp'.host => after = before]_vars

\* the host GetKeyLeast is to return: the owner of the first ring position,
\* from position i on and wrapping after the last ring position, whose host
\* is registered and passes the load test; no host when none of them does
RECURSIVE FirstFit(_, _, _, _, _, _)
FirstFit(hm, rm, ring, T, i, steps) ==
    IF steps = 0 THEN NoHost
    ELSE LET host == MapGet(rm, ring[i + 1])
         IN IF /\ host \in DOMAIN hm
               /\ hm[host] + 1 <= Capacity(T, Cardinality(DOMAIN hm))
            THEN host
            ELSE FirstFit(hm, rm, ring, T,
                          IF i + 1 >= Len(ring) THEN 0 ELSE i + 1, steps - 1)

\* C23: with at least one host registered GetKeyLeast(key) returns the owner
\* of the first virtual node, in ring order from the successor index of the
\* key's hash and wrapping from the last ring position to position 0, whose
\* host passes the load test; no ring position is out of reach of the scan.
GetKeyLeastFirstFit ==
    (lastOp.op = "GetKeyLeast" /\ HostCount >= 1) =>
        /\ lastOp.err = "nil"
        /\ lastOp.out = FirstFit(hostMap, replicaHostMap, sortedHostsHashSet,
                                 totalLoad,
                                 searchKey(sortedHostsHashSet, lastOp.key),
                                 Len(sortedHostsHashSet))

\* C24: when two callers each run GetKeyLeast(k) then Inc(result), with no
\* Done, every registered host's load is at most MaxLoad() whenever no Inc is
\* pending.
ConcurrentWithinMaxLoad ==
    (\A c \in Callers : picked[c] = NoHost) =>
        \A h \in DOMAIN hostMap : hostMap[h] <= MaxLoadValue(hostMap, totalLoad)

====
